---- MODULE Spec2Model ----
(***************************************************************************)
(* btrd: a gateway that polls serial-attached devices and serves the last  *)
(* readings over HTTP.  The model follows restapi.go: the polling          *)
(* goroutine of main (one per device), the HTTP handlers readHandler and   *)
(* changeHandler, and the item methods of package btrd (ReadValue, SetBit, *)
(* ClearBit, Value, OpenPort, ClosePort) with their two locks: the device  *)
(* lock sermux and the per-item lock valmux.                               *)
(*                                                                         *)
(* Numbers: an analog value is kept in units of 1/256 of the reference     *)
(* voltage unit (adcval * vref), a temperature in units of 1/16 degree.    *)
(* A float64 is the record [nan, v]; NaN is [nan |-> TRUE, v |-> 0].       *)
(***************************************************************************)
EXTENDS Integers, Sequences, FiniteSets, TLC

VARIABLES
  conf,        \* map[string]*Btdev returned by loadConfig: device -> item lists
  serport,     \* Btdev.serport: "nil", "open" or "closed", per device
  sermux,      \* Btdev.sermux: "free", "sup" or the handler that holds it
  phase,       \* position of the polling goroutine: start, a loop, check, ...
  idx,         \* index of the item in the current for loop
  step,        \* position inside the ReadValue call of the current item
  buf,         \* the bytes the ReadValue call has read (kept until the loop moves on)
  errcounter,  \* errcounter of the polling goroutine
  value,       \* the value field of every item (the cache)
  valw,        \* valmux held for writing, per item
  valr,        \* the handlers that hold valmux for reading, per item
  polled,      \* history: the item had a successful poll
  lastgood,    \* history: the value the last successful poll decoded
  lastbytes,   \* history: the bytes the last successful poll had read
  sreq,        \* the changeHandler calls in flight, per handler goroutine, each
               \* with the acknowledgement byte its SetBit or ClearBit read (ack)
  greq,        \* the readHandler calls in flight, per handler goroutine
  crashed,     \* the process has ended with an unrecovered panic
  culprit      \* the device whose goroutine panicked

vars == <<conf, serport, sermux, phase, idx, step, buf, errcounter, value,
          valw, valr, polled, lastgood, lastbytes, sreq, greq, crashed, culprit>>

\* ------------------------------------------------------------ constants
maxerrors == 3

\* ------------------------------------------------------------ bounds
\* Number of switch items of device d1, of analog items and of temperature
\* items of device d1 in the configurations explored.
NumSwts == 1

Setters == {"h1", "h2"}   \* goroutines that serve POST requests
Getters == {"r1"}         \* goroutines that serve GET requests

Kinds == {"adcs", "tmpts", "swts"}
KindSeq == <<"adcs", "tmpts", "swts">>

\* Bytes a device may answer, per request.
AdcBytes == {0, 200}
LsbBytes == {1}
MsbBytes == {25, 145}
SwtBytes == {0, 1, 2}
AckBytes == {75, 78}

\* The expressions of the analog items in the configurations explored.
ExprScale == "adcval * (vref / 256)"
ExprBool == "adcval > 100"
ExprBroken == "adcval * ("
ExprUnbound == "volts * 2"
Exprs == {ExprScale, ExprBool, ExprBroken, ExprUnbound}

\* ------------------------------------------------------------ float64
F(v) == [nan |-> FALSE, v |-> v]
NaN == [nan |-> TRUE, v |-> 0]

\* ------------------------------------------------------------ bytes
RECURSIVE BitOr(_, _)
BitOr(a, b) ==
  IF a = 0 THEN b
  ELSE IF b = 0 THEN a
  ELSE (IF a % 2 = 1 \/ b % 2 = 1 THEN 1 ELSE 0) + 2 * BitOr(a \div 2, b \div 2)

RECURSIVE BitAnd(_, _)
BitAnd(a, b) ==
  IF a = 0 \/ b = 0 THEN 0
  ELSE (IF a % 2 = 1 /\ b % 2 = 1 THEN 1 ELSE 0) + 2 * BitAnd(a \div 2, b \div 2)

Shl8(a, n) == (a * (2 ^ n)) % 256
Shr8(a, n) == a \div (2 ^ n)

\* Mutant: the mask 255 for 127.
ConvertTempMask255(msb, lsb) ==
  LET tsign == Shr8(msb, 7)
      tremain == BitAnd(lsb, 15)
      tcom == BitOr(BitAnd(Shl8(msb, 4), 255), Shr8(lsb, 4))
      temp == tcom * 16 + tremain
  IN IF tsign = 1 THEN 0 - (128 * 16 - temp) ELSE temp

\* Mutant: a set sign bit negates the magnitude.
ConvertTempSignMag(msb, lsb) ==
  LET tsign == Shr8(msb, 7)
      tremain == BitAnd(lsb, 15)
      tcom == BitOr(BitAnd(Shl8(msb, 4), 127), Shr8(lsb, 4))
      temp == tcom * 16 + tremain
  IN IF tsign = 1 THEN 0 - temp ELSE temp

\* Mutant: the two bytes read as one 16-bit two's complement number.
ConvertTempWord(msb, lsb) ==
  IF msb * 256 + lsb >= 32768 THEN msb * 256 + lsb - 65536 ELSE msb * 256 + lsb

\* ConvertTemp(msb, lsb), in sixteenths of a degree.
ConvertTemp(msb, lsb) ==
  LET tsign == Shr8(msb, 7)
      tremain == BitAnd(lsb, 15)
      tcom == BitOr(BitAnd(Shl8(msb, 4), 127), Shr8(lsb, 4))
      temp == tcom * 16 + tremain
  IN IF tsign = 1 THEN 0 - (128 * 16 - temp) ELSE temp

\* govaluate on the expressions explored: the result of NewEvaluableExpression
\* followed by Evaluate with adcval and vref bound.
Evaluate(expr, adcval, vref) ==
  CASE expr = ExprScale -> [err |-> "", type |-> "float64", num |-> adcval * vref]
    [] expr = ExprBool -> [err |-> "", type |-> "bool", num |-> 0]
    [] expr = ExprBroken -> [err |-> "parse", type |-> "", num |-> 0]
    [] OTHER -> [err |-> "evaluate", type |-> "", num |-> 0]

getFloat(res) ==
  IF res.type \in {"float64", "float32", "int"}
  THEN [val |-> F(res.num), err |-> FALSE]
  ELSE [val |-> NaN, err |-> TRUE]

\* Mutant: || for && in the test of the switch byte.
SwtWrongOr(b) == (b # 0) \/ (b # 1)

\* The test of Swt.ReadValue on the byte read.
SwtWrong(b) == (b # 0) /\ (b # 1)

\* The test of SetBit and ClearBit on the acknowledgement ('K' is 75).
AckWrong(b) == b # 75

\* ------------------------------------------------------------ configuration
Devs == DOMAIN conf

\* The items of a device b, as <<kind, index>>.
ItemKeys(b) == {x \in Kinds \X (1..(NumSwts + 1)) : x[2] <= Len(b[x[1]])}

SwtIDs == <<"s1", "s2", "s3", "s4">>
SwtList(n) == [i \in 1..n |-> [ID |-> SwtIDs[i]]]

BtdevFull(e) ==
  [adcs |-> <<[ID |-> "a1", Vref |-> 5, Expr |-> e]>>,
   tmpts |-> <<[ID |-> "t1"]>>,
   swts |-> SwtList(NumSwts)]

BtdevSwt == [adcs |-> <<>>, tmpts |-> <<>>, swts |-> <<[ID |-> "s1"]>>]

BtdevTmpt == [adcs |-> <<>>, tmpts |-> <<[ID |-> "t1"]>>, swts |-> <<>>]

ZeroValue(k) == IF k = "swts" THEN 0 ELSE F(0)

NoByte == 0 - 1
IdleSet == [pc |-> "idle", dev |-> "", i |-> 0, op |-> "", resp |-> 0, ack |-> NoByte]
IdleGet == [pc |-> "idle", dev |-> "", it |-> <<"", 0>>, resp |-> 0, body |-> "",
            ret |-> F(0), known |-> FALSE]

\* The state when main has loaded the configuration c and starts its goroutines.
InitFor(c) ==
  /\ conf = c
  /\ serport = [d \in DOMAIN c |-> "nil"]
  /\ sermux = [d \in DOMAIN c |-> "free"]
  /\ phase = [d \in DOMAIN c |-> "start"]
  /\ idx = [d \in DOMAIN c |-> 0]
  /\ step = [d \in DOMAIN c |-> "call"]
  /\ buf = [d \in DOMAIN c |-> <<>>]
  /\ errcounter = [d \in DOMAIN c |-> 0]
  /\ value = [d \in DOMAIN c |-> [it \in ItemKeys(c[d]) |-> ZeroValue(it[1])]]
  /\ valw = [d \in DOMAIN c |-> [it \in ItemKeys(c[d]) |-> FALSE]]
  /\ valr = [d \in DOMAIN c |-> [it \in ItemKeys(c[d]) |-> {}]]
  /\ polled = [d \in DOMAIN c |-> [it \in ItemKeys(c[d]) |-> FALSE]]
  /\ lastgood = [d \in DOMAIN c |-> [it \in ItemKeys(c[d]) |-> ZeroValue(it[1])]]
  /\ lastbytes = [d \in DOMAIN c |-> [it \in ItemKeys(c[d]) |-> <<>>]]
  /\ sreq = [h \in Setters |-> IdleSet]
  /\ greq = [g \in Getters |-> IdleGet]
  /\ crashed = FALSE
  /\ culprit = ""

Init == \E e \in Exprs : InitFor([d \in {"d1"} |-> BtdevFull(e)])

\* ------------------------------------------------------------ the serial port
\* serial.Port.Write on the device's port: a nil *serial.Port panics, a closed
\* one fails, an open one succeeds or fails.
WriteOutcomes(d) ==
  CASE serport[d] = "nil" -> {"panic"}
    [] serport[d] = "closed" -> {"err"}
    [] OTHER -> {"ok", "err"}

\* serial.Port.Read of one byte: the same, an open port answers one of bytes
\* or fails (error or timeout).
ReadOutcomes(d, bytes) ==
  CASE serport[d] = "nil" -> {[st |-> "panic", b |-> 0]}
    [] serport[d] = "closed" -> {[st |-> "err", b |-> 0]}
    [] OTHER -> {[st |-> "err", b |-> 0]} \cup {[st |-> "ok", b |-> x] : x \in bytes}

\* Mutant: sermux.Lock() that excludes nobody.
CanLockAlways(d) == TRUE

\* sermux.Lock() returns only when nobody holds the device lock.
CanLock(d) == sermux[d] = "free"

\* valmux.Lock() of item it returns when nobody holds it.
CanWLock(d, it) == ~valw[d][it] /\ valr[d][it] = {}

\* A goroutine is blocked in valmux.Lock() of item it (sync.RWMutex then holds
\* back new readers).
WriterWaits(d, it) == phase[d] = it[1] /\ idx[d] = it[2] /\ step[d] = "vlock"

\* Mutant: one valmux for the whole device instead of one per item.
CanRLockDevice(d, it) ==
  \A o \in DOMAIN valw[d] : ~valw[d][o] /\ ~WriterWaits(d, o)

\* valmux.RLock() of item it returns when no writer holds or awaits it.
CanRLock(d, it) == ~valw[d][it] /\ ~WriterWaits(d, it)

\* ------------------------------------------------------------ polling goroutine
KindNo(k) == CHOOSE n \in 1..3 : KindSeq[n] = k

\* The first item of the loops from the n-th on, or the fault check after them.
RECURSIVE PosStart(_, _)
PosStart(d, n) ==
  IF n > 3 THEN [phase |-> "check", idx |-> 0]
  ELSE IF Len(conf[d][KindSeq[n]]) > 0 THEN [phase |-> KindSeq[n], idx |-> 1]
  ELSE PosStart(d, n + 1)

\* Mutant: the fault check follows every loop.
PosNextCheckEarly(d, k, i) ==
  IF i < Len(conf[d][k]) THEN [phase |-> k, idx |-> i + 1]
  ELSE [phase |-> "check", idx |-> 0]

\* The position after item i of loop k.
PosNext(d, k, i) ==
  IF i < Len(conf[d][k]) THEN [phase |-> k, idx |-> i + 1]
  ELSE PosStart(d, KindNo(k) + 1)

Polling(d) == phase[d] \in Kinds
CurItem(d) == <<phase[d], idx[d]>>
CurConf(d) == conf[d][phase[d]][idx[d]]

\* An unrecovered panic in the goroutine of device d ends the process.
Panic(d) ==
  /\ crashed' = TRUE
  /\ culprit' = d

\* bt.OpenPort() at the start of the goroutine; its error is only logged.
SupOpen(d) ==
  /\ ~crashed
  /\ phase[d] = "start"
  /\ \E ok \in BOOLEAN : serport' = [serport EXCEPT ![d] = IF ok THEN "open" ELSE @]
  /\ phase' = [phase EXCEPT ![d] = PosStart(d, 1).phase]
  /\ idx' = [idx EXCEPT ![d] = PosStart(d, 1).idx]
  /\ UNCHANGED <<conf, sermux, step, buf, errcounter, value, valw, valr, sreq, greq, crashed, culprit>>

\* Mutant: ReadValue without sermux.Lock().
SupLockNoMutex(d) ==
  /\ ~crashed
  /\ Polling(d) /\ step[d] = "call"
  /\ step' = [step EXCEPT ![d] = "write"]
  /\ UNCHANGED <<conf, serport, sermux, phase, idx, buf, errcounter, value, valw,
                 valr, sreq, greq, crashed, culprit>>

\* ReadValue: sermux.Lock().
SupLock(d) ==
  /\ ~crashed
  /\ Polling(d) /\ step[d] = "call"
  /\ CanLock(d)
  /\ sermux' = [sermux EXCEPT ![d] = "sup"]
  /\ step' = [step EXCEPT ![d] = "write"]
  /\ UNCHANGED <<conf, serport, phase, idx, buf, errcounter, value, valw, valr,
                 sreq, greq, crashed, culprit>>

\* ReadValue returns an error before it has taken valmux, having read bytes:
\* the deferred sermux.Unlock() runs and the loop goes to time.Sleep(errpause).
SupReturnErr(d, bytes) ==
  /\ sermux' = [sermux EXCEPT ![d] = "free"]
  /\ step' = [step EXCEPT ![d] = "errpause"]
  /\ buf' = [buf EXCEPT ![d] = bytes]
  /\ UNCHANGED <<conf, serport, phase, idx, errcounter, value, valw, valr, sreq, greq, crashed, culprit>>

\* ReadValue: serport.Write of Cmdget, Cmdlsb (write) or Cmdmsb (write2).
SupWrite(d) ==
  /\ ~crashed
  /\ Polling(d) /\ step[d] \in {"write", "write2"}
  /\ \E o \in WriteOutcomes(d) :
       CASE o = "panic" ->
              /\ Panic(d)
              /\ UNCHANGED <<conf, serport, sermux, phase, idx, step, buf, errcounter,
                             value, valw, valr, sreq, greq>>
         [] o = "err" -> SupReturnErr(d, buf[d])
         [] OTHER ->
              /\ step' = [step EXCEPT ![d] = IF @ = "write" THEN "read" ELSE "read2"]
              /\ UNCHANGED <<conf, serport, sermux, phase, idx, buf, errcounter, value,
                             valw, valr, sreq, greq, crashed, culprit>>

\* The bytes the device may answer to the request of the current step.
AnswerBytes(k, st) ==
  CASE k = "adcs" -> AdcBytes
    [] k = "tmpts" /\ st = "read" -> LsbBytes
    [] k = "tmpts" -> MsbBytes
    [] OTHER -> SwtBytes

\* What ReadValue does with the byte b it has read, up to its next blocking
\* call: "err" (return an error), "write2" (the second exchange of a
\* temperature) or "vlock" (valmux.Lock()).
AfterRead(d, b) ==
  CASE phase[d] = "adcs" ->
         IF Evaluate(CurConf(d).Expr, b, CurConf(d).Vref).err # "" THEN "err" ELSE "vlock"
    [] phase[d] = "tmpts" -> IF step[d] = "read" THEN "write2" ELSE "vlock"
    [] OTHER -> IF SwtWrong(b) THEN "err" ELSE "vlock"

\* ReadValue: serport.Read of one byte, and the checks that follow it.
SupRead(d) ==
  /\ ~crashed
  /\ Polling(d) /\ step[d] \in {"read", "read2"}
  /\ \E o \in ReadOutcomes(d, AnswerBytes(phase[d], step[d])) :
       CASE o.st = "panic" ->
              /\ Panic(d)
              /\ UNCHANGED <<conf, serport, sermux, phase, idx, step, buf, errcounter,
                             value, valw, valr, sreq, greq>>
         [] o.st = "err" -> SupReturnErr(d, buf[d])
         [] OTHER ->
              IF AfterRead(d, o.b) = "err" THEN SupReturnErr(d, Append(buf[d], o.b))
              ELSE /\ step' = [step EXCEPT ![d] = AfterRead(d, o.b)]
                   /\ buf' = [buf EXCEPT ![d] = Append(@, o.b)]
                   /\ UNCHANGED <<conf, serport, sermux, phase, idx, errcounter, value,
                                  valw, valr, sreq, greq, crashed,
                                  culprit>>

\* ReadValue: valmux.Lock() of the item.
SupVLock(d) ==
  /\ ~crashed
  /\ Polling(d) /\ step[d] = "vlock"
  /\ CanWLock(d, CurItem(d))
  /\ valw' = [valw EXCEPT ![d][CurItem(d)] = TRUE]
  /\ step' = [step EXCEPT ![d] = "store"]
  /\ UNCHANGED <<conf, serport, sermux, phase, idx, buf, errcounter, value, valr,
                 sreq, greq, crashed, culprit>>

\* The assignment to the value field at the end of ReadValue: the value
\* assigned and whether ReadValue then returns an error.
Decoded(d) ==
  CASE phase[d] = "adcs" ->
         getFloat(Evaluate(CurConf(d).Expr, buf[d][1], CurConf(d).Vref))
    [] phase[d] = "tmpts" -> [val |-> F(ConvertTemp(buf[d][2], buf[d][1])), err |-> FALSE]
    [] OTHER -> [val |-> buf[d][1], err |-> FALSE]

\* ReadValue: the assignment of the value field and the return (the deferred
\* valmux.Unlock() and sermux.Unlock()); then, in the loop, errcounter = 0 and
\* the next item, or time.Sleep(errpause) when ReadValue returned an error.
SupStore(d) ==
  /\ ~crashed
  /\ Polling(d) /\ step[d] = "store"
  /\ value' = [value EXCEPT ![d][CurItem(d)] = Decoded(d).val]
  /\ valw' = [valw EXCEPT ![d][CurItem(d)] = FALSE]
  /\ sermux' = [sermux EXCEPT ![d] = "free"]
  /\ IF Decoded(d).err
     THEN /\ step' = [step EXCEPT ![d] = "errpause"]
          /\ UNCHANGED <<phase, idx, buf, errcounter>>
     ELSE /\ step' = [step EXCEPT ![d] = "call"]
          /\ buf' = [buf EXCEPT ![d] = <<>>]
          /\ errcounter' = [errcounter EXCEPT ![d] = 0]
          /\ phase' = [phase EXCEPT ![d] = PosNext(d, phase[d], idx[d]).phase]
          /\ idx' = [idx EXCEPT ![d] = PosNext(d, phase[d], idx[d]).idx]
  /\ UNCHANGED <<conf, serport, valr, sreq, greq, crashed, culprit>>

\* time.Sleep(errpause) ends; errcounter++ and the next item.
SupErrPause(d) ==
  /\ ~crashed
  /\ Polling(d) /\ step[d] = "errpause"
  /\ errcounter' = [errcounter EXCEPT ![d] = @ + 1]
  /\ step' = [step EXCEPT ![d] = "call"]
  /\ buf' = [buf EXCEPT ![d] = <<>>]
  /\ phase' = [phase EXCEPT ![d] = PosNext(d, phase[d], idx[d]).phase]
  /\ idx' = [idx EXCEPT ![d] = PosNext(d, phase[d], idx[d]).idx]
  /\ UNCHANGED <<conf, serport, sermux, value, valw, valr, sreq, greq, crashed, culprit>>

\* Mutant: >= for > in the test at the end of a cycle.
FaultyGe(d) == errcounter[d] >= maxerrors

\* The test at the end of a cycle.
Faulty(d) == errcounter[d] > maxerrors

\* End of a cycle: if errcounter > maxerrors, bt.ClosePort() and the fault
\* pause begins; otherwise the next cycle begins.
SupCheck(d) ==
  /\ ~crashed
  /\ phase[d] = "check"
  /\ IF Faulty(d)
     THEN IF serport[d] = "nil"
          THEN /\ Panic(d)
               /\ UNCHANGED <<serport, phase, idx>>
          ELSE /\ serport' = [serport EXCEPT ![d] = "closed"]
               /\ phase' = [phase EXCEPT ![d] = "pause"]
               /\ UNCHANGED <<idx, crashed, culprit>>
     ELSE /\ phase' = [phase EXCEPT ![d] = PosStart(d, 1).phase]
          /\ idx' = [idx EXCEPT ![d] = PosStart(d, 1).idx]
          /\ UNCHANGED <<serport, crashed, culprit>>
  /\ UNCHANGED <<conf, sermux, step, buf, errcounter, value, valw, valr, sreq, greq>>

\* time.Sleep(failtimeout) ends.
SupPause(d) ==
  /\ ~crashed
  /\ phase[d] = "pause"
  /\ phase' = [phase EXCEPT ![d] = "reopen"]
  /\ UNCHANGED <<conf, serport, sermux, idx, step, buf, errcounter, value, valw,
                 valr, sreq, greq, crashed, culprit>>

\* Mutant: the reopen attempt leaves errcounter as it is.
SupReopenKeepsCount(d) ==
  /\ ~crashed
  /\ phase[d] = "reopen"
  /\ \E ok \in BOOLEAN : serport' = [serport EXCEPT ![d] = IF ok THEN "open" ELSE @]
  /\ phase' = [phase EXCEPT ![d] = PosStart(d, 1).phase]
  /\ idx' = [idx EXCEPT ![d] = PosStart(d, 1).idx]
  /\ UNCHANGED <<conf, sermux, step, buf, errcounter, value, valw, valr, sreq, greq,
                 crashed, culprit>>

\* Mutant: errcounter is reset only when the port could be reopened.
SupReopenOnSuccess(d) ==
  /\ ~crashed
  /\ phase[d] = "reopen"
  /\ \E ok \in BOOLEAN :
       /\ serport' = [serport EXCEPT ![d] = IF ok THEN "open" ELSE @]
       /\ errcounter' = [errcounter EXCEPT ![d] = IF ok THEN 0 ELSE @]
  /\ phase' = [phase EXCEPT ![d] = PosStart(d, 1).phase]
  /\ idx' = [idx EXCEPT ![d] = PosStart(d, 1).idx]
  /\ UNCHANGED <<conf, sermux, step, buf, value, valw, valr, sreq, greq, crashed, culprit>>

\* bt.OpenPort() after the pause (on failure serport keeps the closed port),
\* errcounter = 0, and the next cycle begins.
SupReopen(d) ==
  /\ ~crashed
  /\ phase[d] = "reopen"
  /\ \E ok \in BOOLEAN : serport' = [serport EXCEPT ![d] = IF ok THEN "open" ELSE @]
  /\ errcounter' = [errcounter EXCEPT ![d] = 0]
  /\ phase' = [phase EXCEPT ![d] = PosStart(d, 1).phase]
  /\ idx' = [idx EXCEPT ![d] = PosStart(d, 1).idx]
  /\ UNCHANGED <<conf, sermux, step, buf, value, valw, valr, sreq, greq, crashed, culprit>>

\* ------------------------------------------------------------ changeHandler
\* The POST requests explored, as <<btdevID, itemtypes, itemID, body>>: to
\* the switches of one device, and to the switches of two devices.
SetRequests ==
  {<<"d1", "swts", "s1", "true">>, <<"d1", "swts", "s1", "false">>,
   <<"d1", "swts", "s2", "true">>, <<"d1", "swts", "s1", "on">>,
   <<"d1", "swts", "s1", "">>, <<"d1", "swts", "s9", "true">>,
   <<"d1", "adcs", "a1", "true">>, <<"d9", "swts", "s1", "false">>}

PairRequests ==
  {<<"d1", "swts", "s1", "true">>, <<"d2", "swts", "s1", "false">>,
   <<"d9", "swts", "s1", "true">>}

\* The GET requests explored, as <<btdevID, itemtypes, itemID>>.
GetRequests ==
  {<<"d1", "adcs", "a1">>, <<"d1", "tmpts", "t1">>, <<"d1", "swts", "s1">>,
   <<"d1", "swts", "s2">>, <<"d2", "swts", "s1">>, <<"d9", "swts", "s1">>,
   <<"d1", "tmpts", "s1">>}

\* The index of the first item of list l whose ID is id, 0 if there is none
\* (the for loops of the handlers).
Lookup(l, id) ==
  IF \E i \in 1..Len(l) : l[i].ID = id
  THEN CHOOSE i \in 1..Len(l) : l[i].ID = id /\ \A j \in 1..(i - 1) : l[j].ID # id
  ELSE 0

\* changeHandler up to the call of SetBit or ClearBit: 400 unless the device
\* is known, the item type is swts, the body is true or false and the switch
\* is found.
SetStart(h, dv, kd, id, body) ==
  /\ ~crashed
  /\ sreq[h].pc = "idle"
  /\ IF dv \in Devs /\ kd = "swts" /\ body \in {"true", "false"}
        /\ Lookup(conf[dv]["swts"], id) > 0
     THEN sreq' = [sreq EXCEPT ![h] =
                     [pc |-> "lock", dev |-> dv, i |-> Lookup(conf[dv]["swts"], id),
                      op |-> IF body = "true" THEN "SetBit" ELSE "ClearBit",
                      resp |-> 0, ack |-> NoByte]]
     ELSE sreq' = [sreq EXCEPT ![h] = [IdleSet EXCEPT !.resp = 400]]
  /\ UNCHANGED <<conf, serport, sermux, phase, idx, step, buf, errcounter, value,
                 valw, valr, greq, crashed, culprit>>

\* SetBit, ClearBit: sermux.Lock().
SetLock(h) ==
  /\ ~crashed
  /\ sreq[h].pc = "lock"
  /\ CanLock(sreq[h].dev)
  /\ sermux' = [sermux EXCEPT ![sreq[h].dev] = h]
  /\ sreq' = [sreq EXCEPT ![h].pc = "write"]
  /\ UNCHANGED <<conf, serport, phase, idx, step, buf, errcounter, value, valw,
                 valr, greq, crashed, culprit>>

\* Mutant: a successful SetBit or ClearBit also stores the new state.
SetReturnOptimistic(h, code, b) ==
  /\ sermux' = [sermux EXCEPT ![sreq[h].dev] = "free"]
  /\ sreq' = [sreq EXCEPT ![h] =
       IF code = 200 THEN [@ EXCEPT !.pc = "idle", !.resp = 200, !.ack = b]
       ELSE [IdleSet EXCEPT !.resp = code, !.ack = b]]
  /\ value' = IF code = 200
              THEN [value EXCEPT ![sreq[h].dev][<<"swts", sreq[h].i>>] =
                      IF sreq[h].op = "SetBit" THEN 1 ELSE 0]
              ELSE value
  /\ UNCHANGED <<conf, serport, phase, idx, step, buf, errcounter, valw,
                 valr, greq, crashed, culprit>>

\* SetBit or ClearBit returns, having read the byte b or none (the deferred
\* sermux.Unlock() runs), and changeHandler answers with status code; 0
\* stands for a panic of the handler, which net/http recovers by dropping the
\* connection.  The request is remembered with the answer 200 only.
SetReturn(h, code, b) ==
  /\ sermux' = [sermux EXCEPT ![sreq[h].dev] = "free"]
  /\ sreq' = [sreq EXCEPT ![h] =
       IF code = 200 THEN [@ EXCEPT !.pc = "idle", !.resp = 200, !.ack = b]
       ELSE [IdleSet EXCEPT !.resp = code, !.ack = b]]
  /\ UNCHANGED <<conf, serport, phase, idx, step, buf, errcounter, value, valw,
                 valr, greq, crashed, culprit>>

\* SetBit, ClearBit: serport.Write of Cmdset or Cmdclr.
SetWrite(h) ==
  /\ ~crashed
  /\ sreq[h].pc = "write"
  /\ \E o \in WriteOutcomes(sreq[h].dev) :
       CASE o = "panic" -> SetReturn(h, 0, NoByte)
         [] o = "err" -> SetReturn(h, 500, NoByte)
         [] OTHER ->
              /\ sreq' = [sreq EXCEPT ![h].pc = "read"]
              /\ UNCHANGED <<conf, serport, sermux, phase, idx, step, buf, errcounter,
                             value, valw, valr, greq, crashed,
                             culprit>>

\* SetBit, ClearBit: serport.Read of the acknowledgement and its test.
SetRead(h) ==
  /\ ~crashed
  /\ sreq[h].pc = "read"
  /\ \E o \in ReadOutcomes(sreq[h].dev, AckBytes) :
       CASE o.st = "panic" -> SetReturn(h, 0, NoByte)
         [] o.st = "err" -> SetReturn(h, 500, NoByte)
         [] OTHER -> SetReturn(h, IF AckWrong(o.b) THEN 500 ELSE 200, o.b)

\* ------------------------------------------------------------ readHandler
\* readHandler up to the call of Value(): 400 unless the device and the item
\* are found.
GetStart(g, dv, kd, id) ==
  /\ ~crashed
  /\ greq[g].pc = "idle"
  /\ IF dv \in Devs /\ Lookup(conf[dv][kd], id) > 0
     THEN greq' = [greq EXCEPT ![g] =
                     [IdleGet EXCEPT !.pc = "rlock", !.dev = dv,
                                     !.it = <<kd, Lookup(conf[dv][kd], id)>>]]
     ELSE greq' = [greq EXCEPT ![g] = [IdleGet EXCEPT !.resp = 400]]
  /\ UNCHANGED <<conf, serport, sermux, phase, idx, step, buf, errcounter, value,
                 valw, valr, sreq, crashed, culprit>>

\* Value(): valmux.RLock().
GetRLock(g) ==
  /\ ~crashed
  /\ greq[g].pc = "rlock"
  /\ CanRLock(greq[g].dev, greq[g].it)
  /\ valr' = [valr EXCEPT ![greq[g].dev][greq[g].it] = @ \cup {g}]
  /\ greq' = [greq EXCEPT ![g].pc = "read"]
  /\ UNCHANGED <<conf, serport, sermux, phase, idx, step, buf, errcounter, value,
                 valw, sreq, crashed, culprit>>

\* Mutant: the cases 1 and 0 of readHandler swapped.
AnswerSwapped(k, v) ==
  CASE k # "swts" -> [resp |-> 200, body |-> "number"]
    [] v = 1 -> [resp |-> 200, body |-> "false"]
    [] v = 0 -> [resp |-> 200, body |-> "true"]
    [] OTHER -> [resp |-> 400, body |-> ""]

\* What readHandler writes for the value v of an item of kind k: the status
\* and, for a switch, the text.
Answer(k, v) ==
  CASE k # "swts" -> [resp |-> 200, body |-> "number"]
    [] v = 1 -> [resp |-> 200, body |-> "true"]
    [] v = 0 -> [resp |-> 200, body |-> "false"]
    [] OTHER -> [resp |-> 400, body |-> ""]

\* The float64 that stands for the value v of an item of kind k.
AsFloat(k, v) == IF k = "swts" THEN F(v) ELSE v

\* Value() reads the value field and returns (the deferred valmux.RUnlock()
\* runs); readHandler writes the answer.
GetReturn(g) ==
  /\ ~crashed
  /\ greq[g].pc = "read"
  /\ valr' = [valr EXCEPT ![greq[g].dev][greq[g].it] = @ \ {g}]
  /\ greq' = [greq EXCEPT
       ![g].pc = "idle",
       ![g].ret = AsFloat(greq[g].it[1], value[greq[g].dev][greq[g].it]),
       ![g].known = polled[greq[g].dev][greq[g].it],
       ![g].resp = Answer(greq[g].it[1], value[greq[g].dev][greq[g].it]).resp,
       ![g].body = Answer(greq[g].it[1], value[greq[g].dev][greq[g].it]).body]
  /\ UNCHANGED <<conf, serport, sermux, phase, idx, step, buf, errcounter, value,
                 valw, sreq, crashed, culprit>>

\* ------------------------------------------------------------ specifications
\* The step is a call of ReadValue on item it of device d returning nil.
GoodPoll(d, it) ==
  Polling(d) /\ CurItem(d) = it /\ step[d] = "store" /\ step'[d] = "call"

\* History of the successful polls: whether an item had one, and the value
\* the last one decoded.
Track ==
  /\ polled' = [d \in Devs |-> [it \in DOMAIN polled[d] |->
                  polled[d][it] \/ GoodPoll(d, it)]]
  /\ lastgood' = [d \in Devs |-> [it \in DOMAIN lastgood[d] |->
                  IF GoodPoll(d, it) THEN Decoded(d).val ELSE lastgood[d][it]]]
  /\ lastbytes' = [d \in Devs |-> [it \in DOMAIN lastbytes[d] |->
                   IF GoodPoll(d, it) THEN buf[d] ELSE lastbytes[d][it]]]

\* No history is kept.
NoTrack == UNCHANGED <<polled, lastgood, lastbytes>>

\* One device with an item of every kind; the polling goroutine and GET
\* requests; every expression explored; with the history of the polls.
Next ==
  \/ \E d \in Devs : SupOpen(d) /\ Track
  \/ \E d \in Devs : SupLock(d) /\ Track
  \/ \E d \in Devs : SupWrite(d) /\ Track
  \/ \E d \in Devs : SupRead(d) /\ Track
  \/ \E d \in Devs : SupVLock(d) /\ Track
  \/ \E d \in Devs : SupStore(d) /\ Track
  \/ \E d \in Devs : SupErrPause(d) /\ Track
  \/ \E d \in Devs : SupCheck(d) /\ Track
  \/ \E d \in Devs : SupPause(d) /\ Track
  \/ \E d \in Devs : SupReopen(d) /\ Track
  \/ \E g \in Getters, r \in GetRequests : GetStart(g, r[1], r[2], r[3]) /\ Track
  \/ \E g \in Getters : GetRLock(g) /\ Track
  \/ \E g \in Getters : GetReturn(g) /\ Track

Spec == Init /\ [][Next]_vars

\* The same device with the expression of the documentation; the polling
\* goroutine and concurrent POST requests.
InitSet == InitFor([d \in {"d1"} |-> BtdevFull(ExprScale)])

NextSet ==
  \/ \E d \in Devs : SupOpen(d) /\ NoTrack
  \/ \E d \in Devs : SupLock(d) /\ NoTrack
  \/ \E d \in Devs : SupWrite(d) /\ NoTrack
  \/ \E d \in Devs : SupRead(d) /\ NoTrack
  \/ \E d \in Devs : SupVLock(d) /\ NoTrack
  \/ \E d \in Devs : SupStore(d) /\ NoTrack
  \/ \E d \in Devs : SupErrPause(d) /\ NoTrack
  \/ \E d \in Devs : SupCheck(d) /\ NoTrack
  \/ \E d \in Devs : SupPause(d) /\ NoTrack
  \/ \E d \in Devs : SupReopen(d) /\ NoTrack
  \/ \E h \in Setters, r \in SetRequests : SetStart(h, r[1], r[2], r[3], r[4]) /\ NoTrack
  \/ \E h \in Setters : SetLock(h) /\ NoTrack
  \/ \E h \in Setters : SetWrite(h) /\ NoTrack
  \/ \E h \in Setters : SetRead(h) /\ NoTrack

SpecSet == InitSet /\ [][NextSet]_vars

\* Two devices with one switch each; their polling goroutines and one POST
\* request at a time.
InitPair == InitFor([d \in {"d1", "d2"} |-> BtdevSwt])

NextPair ==
  \/ \E d \in Devs : SupOpen(d) /\ NoTrack
  \/ \E d \in Devs : SupLock(d) /\ NoTrack
  \/ \E d \in Devs : SupWrite(d) /\ NoTrack
  \/ \E d \in Devs : SupRead(d) /\ NoTrack
  \/ \E d \in Devs : SupVLock(d) /\ NoTrack
  \/ \E d \in Devs : SupStore(d) /\ NoTrack
  \/ \E d \in Devs : SupErrPause(d) /\ NoTrack
  \/ \E d \in Devs : SupCheck(d) /\ NoTrack
  \/ \E d \in Devs : SupPause(d) /\ NoTrack
  \/ \E d \in Devs : SupReopen(d) /\ NoTrack
  \/ \E r \in PairRequests : SetStart("h1", r[1], r[2], r[3], r[4]) /\ NoTrack
  \/ SetLock("h1") /\ NoTrack
  \/ SetWrite("h1") /\ NoTrack
  \/ SetRead("h1") /\ NoTrack

SpecPair == InitPair /\ [][NextPair]_vars

\* The values of a byte.
Byte == 0..255

\* One device with one temperature item, whose Tmpt.ReadValue has read the
\* two bytes lsb and msb, any two, and is about to take valmux and decode them.
InitTemp ==
  \E lsb \in Byte, msb \in Byte :
    /\ conf = [d \in {"d1"} |-> BtdevTmpt]
    /\ serport = [d \in {"d1"} |-> "open"]
    /\ sermux = [d \in {"d1"} |-> "sup"]
    /\ phase = [d \in {"d1"} |-> "tmpts"]
    /\ idx = [d \in {"d1"} |-> 1]
    /\ step = [d \in {"d1"} |-> "vlock"]
    /\ buf = [d \in {"d1"} |-> <<lsb, msb>>]
    /\ errcounter = [d \in {"d1"} |-> 0]
    /\ value = [d \in {"d1"} |-> [it \in ItemKeys(BtdevTmpt) |-> ZeroValue(it[1])]]
    /\ valw = [d \in {"d1"} |-> [it \in ItemKeys(BtdevTmpt) |-> FALSE]]
    /\ valr = [d \in {"d1"} |-> [it \in ItemKeys(BtdevTmpt) |-> {}]]
    /\ polled = [d \in {"d1"} |-> [it \in ItemKeys(BtdevTmpt) |-> FALSE]]
    /\ lastgood = [d \in {"d1"} |-> [it \in ItemKeys(BtdevTmpt) |-> ZeroValue(it[1])]]
    /\ lastbytes = [d \in {"d1"} |-> [it \in ItemKeys(BtdevTmpt) |-> <<>>]]
    /\ sreq = [h \in Setters |-> IdleSet]
    /\ greq = [g \in Getters |-> IdleGet]
    /\ crashed = FALSE
    /\ culprit = ""

\* The rest of that call of Tmpt.ReadValue.
NextTemp ==
  \/ \E d \in Devs : SupVLock(d) /\ Track
  \/ \E d \in Devs : SupStore(d) /\ Track

SpecTemp == InitTemp /\ [][NextTemp]_vars

\* One device with one switch, its polling goroutine and POST requests to the
\* switch, with the scheduling the Go runtime gives: a goroutine that can run
\* does run, time.Sleep and a Write or Read on the port (which has a read
\* timeout) return, and a goroutine that waits in sermux.Lock() gets the lock
\* although others keep taking it (sync.Mutex hands the lock to a waiter that
\* has waited for more than 1 ms).
LiveRequests == {<<"d1", "swts", "s1", "true">>}

InitLive == InitFor([d \in {"d1"} |-> BtdevSwt])

NextLive ==
  \/ SupOpen("d1") /\ NoTrack
  \/ SupLock("d1") /\ NoTrack
  \/ SupWrite("d1") /\ NoTrack
  \/ SupRead("d1") /\ NoTrack
  \/ SupVLock("d1") /\ NoTrack
  \/ SupStore("d1") /\ NoTrack
  \/ SupErrPause("d1") /\ NoTrack
  \/ SupCheck("d1") /\ NoTrack
  \/ SupPause("d1") /\ NoTrack
  \/ SupReopen("d1") /\ NoTrack
  \/ \E r \in LiveRequests : SetStart("h1", r[1], r[2], r[3], r[4]) /\ NoTrack
  \/ SetLock("h1") /\ NoTrack
  \/ SetWrite("h1") /\ NoTrack
  \/ SetRead("h1") /\ NoTrack

Fairness ==
  /\ WF_vars(SupOpen("d1") /\ NoTrack)
  /\ SF_vars(SupLock("d1") /\ NoTrack)
  /\ WF_vars(SupWrite("d1") /\ NoTrack)
  /\ WF_vars(SupRead("d1") /\ NoTrack)
  /\ WF_vars(SupVLock("d1") /\ NoTrack)
  /\ WF_vars(SupStore("d1") /\ NoTrack)
  /\ WF_vars(SupErrPause("d1") /\ NoTrack)
  /\ WF_vars(SupCheck("d1") /\ NoTrack)
  /\ WF_vars(SupPause("d1") /\ NoTrack)
  /\ WF_vars(SupReopen("d1") /\ NoTrack)
  /\ WF_vars(SetLock("h1") /\ NoTrack)
  /\ WF_vars(SetWrite("h1") /\ NoTrack)
  /\ WF_vars(SetRead("h1") /\ NoTrack)

SpecLive == InitLive /\ [][NextLive]_vars /\ Fairness

\* ------------------------------------------------------------ properties
\* The parties that are inside an exchange on the port of device d: between
\* sermux.Lock() and the return of ReadValue, SetBit or ClearBit.
SupInExchange(d) ==
  Polling(d) /\ step[d] \in {"write", "read", "write2", "read2", "vlock", "store"}
SetInExchange(h, d) == sreq[h].dev = d /\ sreq[h].pc \in {"write", "read"}
Parties(d) ==
  {h \in Setters : SetInExchange(h, d)} \cup (IF SupInExchange(d) THEN {"sup"} ELSE {})

\* C1: on every device at most one party is inside an exchange at any
\* instant: a poll exchange of the polling goroutine and the SetBit or
\* ClearBit exchanges of concurrent POST requests never overlap.
C1_OneExchangeAtATime == \A d \in Devs : Cardinality(Parties(d)) <= 1

\* C1 witness: the polling goroutine awaits the answer of a switch while both
\* POST handlers wait for the device lock.
C1_Witness ==
  /\ phase["d1"] = "swts" /\ step["d1"] = "read"
  /\ \A h \in Setters : sreq[h].pc = "lock" /\ sreq[h].dev = "d1"

\* The polling goroutine of d is between the first write and the second read
\* of a temperature fetch.
TempMid(d) == phase[d] = "tmpts" /\ step[d] \in {"read", "write2", "read2"}

\* C2: between the first write and the second read of a temperature fetch the
\* polling goroutine holds the device lock and no POST handler is at a write
\* or a read on that device; no step in between releases the lock or lets a
\* handler write or read.
C2_TempFetchAtomic ==
  [][\A d \in Devs :
       /\ TempMid(d) =>
            /\ sermux[d] = "sup"
            /\ \A h \in Setters : ~SetInExchange(h, d)
       /\ (TempMid(d) /\ TempMid(d)') =>
            /\ sermux'[d] = "sup"
            /\ \A h \in Setters : ~(sreq'[h].dev = d /\ sreq'[h].pc \in {"write", "read"})
            /\ serport'[d] = serport[d]]_vars

\* C2 witness: the first pair of a temperature fetch is done, the second
\* write is next, and a POST handler waits for the device lock.
C2_Witness ==
  /\ phase["d1"] = "tmpts" /\ step["d1"] = "write2" /\ Len(buf["d1"]) = 1
  /\ \E h \in Setters : sreq[h].pc = "lock" /\ sreq[h].dev = "d1"

\* The step is the assignment of ReadValue to the value field of item it of d.
StoreStep(d, it) == Polling(d) /\ CurItem(d) = it /\ step[d] = "store" /\ step'[d] # "store"

\* C3: SetBit and ClearBit never change a cached value, whether they succeed
\* or fail, and a cached value changes only in the assignment of a poll of
\* that item by the polling goroutine of its device; so a get after a set,
\* with no poll of the switch in between, reads the value cached before it.
C3_SetLeavesCache ==
  [][/\ (\E h \in Setters : sreq'[h] # sreq[h]) => value' = value
     /\ \A d \in Devs : \A it \in DOMAIN value[d] :
          value'[d][it] # value[d][it] => StoreStep(d, it)]_vars

\* C3 witness: SetBit was answered 200 while the polling goroutine was in
\* the temperature fetch that precedes the switch, and the switch is still
\* cached as 0.
C3_Witness ==
  \E h \in Setters :
    /\ sreq[h].pc = "idle" /\ sreq[h].resp = 200 /\ sreq[h].op = "SetBit"
    /\ value[sreq[h].dev][<<"swts", sreq[h].i>>] = 0
    /\ phase[sreq[h].dev] = "tmpts" /\ step[sreq[h].dev] = "call"

\* C4: when Swt.ReadValue has read a byte other than 0 and 1 it returns an
\* error and no cached value changes; when it has read 0 or 1 it goes on to
\* store it, and the store makes the switch's cached value that byte and
\* counts as a success.
C4_SwitchByte ==
  [][\A d \in Devs : phase[d] = "swts" =>
       /\ (step[d] = "read" /\ step'[d] # "read" /\ Len(buf'[d]) = 1) =>
            /\ buf'[d][1] \notin {0, 1} => (step'[d] = "errpause" /\ value' = value)
            /\ buf'[d][1] \in {0, 1} => (step'[d] = "vlock" /\ value' = value)
       /\ StoreStep(d, CurItem(d)) =>
            /\ buf[d][1] \in {0, 1}
            /\ value'[d][CurItem(d)] = buf[d][1]
            /\ step'[d] = "call" /\ errcounter'[d] = 0]_vars

\* C4 witness: the switch answered 2, ReadValue returned its error, and the
\* cached value is the 1 of an earlier poll.
C4_Witness ==
  /\ phase["d1"] = "swts" /\ step["d1"] = "errpause" /\ buf["d1"] = <<2>>
  /\ polled["d1"][<<"swts", 1>>] /\ value["d1"][<<"swts", 1>>] = 1

\* C5: the cached value of every item is the value decoded by its most
\* recent successful poll (the zero value before the first one): a poll that
\* returns an error leaves it unchanged.
C5_CacheIsLastGood ==
  \A d \in Devs : \A it \in DOMAIN value[d] : value[d][it] = lastgood[d][it]

\* C6 as claimed: once errcounter exceeds maxerrors, nothing but the reopen
\* at the end of the close, pause, reopen sequence resets it to 0.
C6_ExceedLeadsToReopen ==
  [][\A d \in Devs :
       (errcounter[d] > maxerrors /\ errcounter'[d] = 0) => phase[d] = "reopen"]_vars

\* C6 amended: the test is made at the end of a cycle only.  If errcounter
\* exceeds maxerrors there, the goroutine closes the port and starts the
\* pause, after the pause it attempts to reopen, and with the attempt,
\* successful or not, errcounter becomes 0 and the next cycle begins; if it
\* does not exceed maxerrors there, the port is left alone and the next cycle
\* begins with errcounter as it is.
C6_FaultCheck ==
  [][\A d \in Devs :
       /\ (phase[d] = "check" /\ phase'[d] # "check") =>
            IF errcounter[d] > maxerrors
            THEN phase'[d] = "pause" /\ serport'[d] = "closed" /\ ~crashed'
            ELSE /\ phase'[d] = PosStart(d, 1).phase
                 /\ serport'[d] = serport[d] /\ errcounter'[d] = errcounter[d]
       /\ (phase[d] = "pause" /\ phase'[d] # "pause") =>
            phase'[d] = "reopen" /\ serport'[d] = "closed"
       /\ (phase[d] = "reopen" /\ phase'[d] # "reopen") =>
            /\ errcounter'[d] = 0
            /\ phase'[d] = PosStart(d, 1).phase
            /\ serport'[d] \in {"open", "closed"}
       /\ serport'[d] = "closed" /\ serport[d] # "closed" =>
            phase[d] = "check" /\ errcounter[d] > maxerrors]_vars

\* C6 witness: after a cycle that ended with errcounter above maxerrors the
\* port is closed, the pause is over and the reopen is next.
C6_Witness ==
  phase["d1"] = "reopen" /\ errcounter["d1"] > maxerrors /\ serport["d1"] = "closed"

\* C7: no failure of an item's exchange ends the polling goroutine or the
\* process: the goroutine has no terminal state.
C7_NeverEnds == ~crashed

\* What C8 names of device e: its port, its device lock, the errcounter of its
\* goroutine and its cached values.
Shared(e) == <<serport[e], sermux[e], errcounter[e], value[e]>>

\* The step is one of the polling goroutine of d or of a POST request to d.
ActsOn(d) ==
  \/ <<phase[d], idx[d], step[d], buf[d], errcounter[d], serport[d]>>' #
       <<phase[d], idx[d], step[d], buf[d], errcounter[d], serport[d]>>
  \/ ~crashed /\ crashed' /\ culprit' = d
  \/ \E h \in Setters : sreq'[h] # sreq[h] /\ (sreq[h].dev = d \/ sreq'[h].dev = d)

\* C8: a step of the goroutine of a device, or of a set request to it, leaves
\* the port, the lock, the errcounter and the cached values of every other
\* device unchanged, and leaves the goroutines of the other devices running.
C8_Isolation ==
  [][\A d \in Devs : ActsOn(d) =>
       \A e \in Devs \ {d} : Shared(e)' = Shared(e) /\ (~crashed => ~crashed')]_vars

\* The part of C8 about the state of the other devices alone.
C8_Frame ==
  [][\A d \in Devs : ActsOn(d) => \A e \in Devs \ {d} : Shared(e)' = Shared(e)]_vars

\* C9: whoever holds the valmux of an item for writing is at the assignment
\* that ends ReadValue, not at or before a write or read of the port; the
\* handlers that hold it for reading are inside Value(); and a get that
\* waits in RLock() can go on as soon as no writer holds or awaits the valmux
\* of its own item, whatever happens to the other items and to the port.
C9_GetNeverWaitsOnIO ==
  /\ \A d \in Devs : \A it \in DOMAIN value[d] :
       /\ valw[d][it] => (Polling(d) /\ CurItem(d) = it /\ step[d] = "store")
       /\ \A g \in valr[d][it] : greq[g].pc = "read" /\ greq[g].dev = d /\ greq[g].it = it
  /\ \A g \in Getters :
       (/\ ~crashed
        /\ greq[g].pc = "rlock"
        /\ ~valw[greq[g].dev][greq[g].it]
        /\ ~WriterWaits(greq[g].dev, greq[g].it)) => ENABLED GetRLock(g)

\* C9 witness: a get of the temperature item is at RLock() while the polling
\* goroutine holds the valmux of the analog item for writing.
C9_Witness ==
  /\ valw["d1"][<<"adcs", 1>>]
  /\ greq["r1"].pc = "rlock" /\ greq["r1"].it = <<"tmpts", 1>>

\* The values a successful poll of item it of device d can store, as float64.
Storable(d, it) ==
  CASE it[1] = "adcs" -> {F(b * conf[d]["adcs"][it[2]].Vref) : b \in AdcBytes}
    [] it[1] = "tmpts" -> {F(ConvertTemp(m, l)) : m \in MsbBytes, l \in LsbBytes}
    [] OTHER -> {F(0), F(1)}

\* A get of an item that had no successful poll yet has been answered.
AnsweredUnpolled(g) == greq[g].pc = "idle" /\ greq[g].resp = 200 /\ ~greq[g].known

ValidSet(r) ==
  /\ r[1] \in Devs /\ r[2] = "swts" /\ r[4] \in {"true", "false"}
  /\ \E i \in 1..Len(conf[r[1]]["swts"]) : conf[r[1]]["swts"][i].ID = r[3]

\* The step is one of changeHandler, serving r in handler h, that begins no
\* exchange: it answers 400 and leaves the port and the device lock alone.
Rejects(h, r) ==
  /\ sreq'[h].pc = "idle" /\ sreq'[h].resp = 400
  /\ serport' = serport /\ sermux' = sermux

\* The step is one of changeHandler, serving r in handler h, that calls SetBit
\* for the body true and ClearBit for the body false on the switch r[3].
Calls(h, r) ==
  /\ sreq'[h].pc = "lock" /\ sreq'[h].dev = r[1]
  /\ conf[r[1]]["swts"][sreq'[h].i].ID = r[3]
  /\ sreq'[h].op = (IF r[4] = "true" THEN "SetBit" ELSE "ClearBit")

\* The step ends the SetBit or ClearBit call of handler h.
SetEnds(h) == sreq[h].pc \in {"write", "read"} /\ sreq'[h].pc = "idle"

\* C11: a POST request with an unknown device, a kind other than swts, an
\* unknown switch id or a body other than true and false is answered 400 and
\* begins no exchange; any other calls SetBit (true) or ClearBit (false) on
\* the switch named.  The call is answered 200 when the exchange succeeded
\* (the byte read is 'K') and 500 when it failed.
C11_SetContract ==
  [][\A h \in Setters :
       /\ \A r \in SetRequests :
            SetStart(h, r[1], r[2], r[3], r[4]) =>
              IF ValidSet(r) THEN Calls(h, r) ELSE Rejects(h, r)
       /\ SetEnds(h) =>
            IF sreq'[h].ack = 75 THEN sreq'[h].resp = 200 ELSE sreq'[h].resp = 500]_vars

\* The part of C11 that holds: the same, for the calls that do not end in a
\* panic on a port that was never opened.
C11_ExceptNilPort ==
  [][\A h \in Setters :
       /\ \A r \in SetRequests :
            SetStart(h, r[1], r[2], r[3], r[4]) =>
              IF ValidSet(r) THEN Calls(h, r) ELSE Rejects(h, r)
       /\ (SetEnds(h) /\ serport[sreq[h].dev] # "nil") =>
            IF sreq'[h].ack = 75 THEN sreq'[h].resp = 200 ELSE sreq'[h].resp = 500]_vars

\* The only temperature item of the configurations explored.
T1 == <<"tmpts", 1>>

\* The step is the assignment of Tmpt.ReadValue on device d, which has read
\* the bytes lsb and msb.
TempStore(d, lsb, msb) == StoreStep(d, T1) /\ buf[d] = <<lsb, msb>>

\* C12 as claimed: the bytes MSB = 0x19, LSB = 0x01 decode to 25.0625, which
\* is 401 sixteenths.
C12_Decode25 ==
  [][\A d \in Devs : TempStore(d, 1, 25) => value'[d][T1] = F(401)]_vars

\* C12 amended: the bytes MSB = 0x19, LSB = 0x01 decode to 16.0625, which is
\* 257 sixteenths: the shift by 4 drops the upper bits of MSB and the mask
\* leaves 0x10.
C12_Decode16 ==
  [][\A d \in Devs : TempStore(d, 1, 25) => value'[d][T1] = F(257)]_vars

\* C12 witness: a poll has read LSB = 1 and MSB = 25 and stored 16.0625.
C12_Witness ==
  /\ polled["d1"][T1] /\ lastbytes["d1"][T1] = <<1, 25>>
  /\ value["d1"][T1] = F(257)

\* C13 as claimed: the bytes MSB = 0x91, LSB = 0x00 decode to -111, which is
\* -1776 sixteenths (magnitude 17).
C13_DecodeMinus111 ==
  [][\A d \in Devs : TempStore(d, 0, 145) => value'[d][T1] = F(0 - 1776)]_vars

\* C13 amended: the bytes MSB = 0x91, LSB = 0x00 have magnitude 16 and decode
\* to -(128 - 16) = -112, which is -1792 sixteenths.
C13_DecodeMinus112 ==
  [][\A d \in Devs : TempStore(d, 0, 145) =>
       /\ BitOr(BitAnd(Shl8(145, 4), 127), Shr8(0, 4)) = 16
       /\ value'[d][T1] = F(0 - (128 - 16) * 16)]_vars

\* C13 witness: a poll has read LSB = 0 and MSB = 145 and stored -112.
C13_Witness ==
  /\ polled["d1"][T1] /\ lastbytes["d1"][T1] = <<0, 145>>
  /\ value["d1"][T1] = F(0 - 1792)

\* The formula of the claim C20 in sixteenths of a degree, in 8-bit
\* arithmetic: sign is bit 7 of msb, the fraction is (lsb & 0x0F)/16, the
\* magnitude is ((msb << 4) & 0x7F) | (lsb >> 4) with the shift truncated to 8
\* bits before the mask.
TempFormula(msb, lsb) ==
  LET sign == msb \div 128
      fraction == lsb % 16
      shifted == (msb * 16) % 256
      magnitude == BitOr(shifted % 128, lsb \div 16)
  IN IF sign = 0 THEN magnitude * 16 + fraction
     ELSE 0 - (128 * 16 - (magnitude * 16 + fraction))

\* C20: for every pair of bytes the value that Tmpt.ReadValue stores is the
\* one the formula gives.
C20_DecodeFormula ==
  [][\A d \in Devs :
       (StoreStep(d, T1) /\ buf[d] \in Byte \X Byte) =>
         value'[d][T1] = F(TempFormula(buf[d][2], buf[d][1]))]_vars

\* C20 witness: a poll has read LSB = 0x5E and MSB = 0xFF, sign bit set and a
\* fraction, and stored -10.125.
C20_Witness ==
  /\ polled["d1"][T1] /\ lastbytes["d1"][T1] = <<94, 255>>
  /\ value["d1"][T1] = F(0 - 162)

\* The party (the polling goroutine "sup" or a POST handler) has written a
\* command to the port of device d and has not yet read the answer.
AwaitsAnswer(p, d) ==
  IF p = "sup" THEN Polling(d) /\ step[d] \in {"read", "read2"}
  ELSE sreq[p].dev = d /\ sreq[p].pc = "read"

\* The step is a write or a read of party p on the port of device d.
Exchanges(p, d) ==
  IF p = "sup"
  THEN Polling(d) /\ step[d] \in {"write", "read", "write2", "read2"} /\ step'[d] # step[d]
  ELSE sreq[p].dev = d /\ sreq[p].pc \in {"write", "read"} /\ sreq'[p] # sreq[p]

\* The step closes or opens the port of device d.
ClosesOrOpens(d) == phase[d] \in {"start", "check", "reopen"} /\ serport'[d] # serport[d]

\* C14: while a party is between a write and the matching read on a device,
\* the only step that touches the port of the device is that read: no other
\* party writes or reads, and the polling goroutine neither closes nor reopens
\* the port.
C14_ExchangeUndisturbed ==
  [][\A d \in Devs : \A p \in Setters \cup {"sup"} :
       AwaitsAnswer(p, d) =>
         /\ \A q \in (Setters \cup {"sup"}) \ {p} : ~Exchanges(q, d)
         /\ ~ClosesOrOpens(d)]_vars

\* The part of C14 that holds: no other party writes or reads in between.
C14_NoForeignExchange ==
  [][\A d \in Devs : \A p \in Setters \cup {"sup"} :
       AwaitsAnswer(p, d) =>
         \A q \in (Setters \cup {"sup"}) \ {p} : ~Exchanges(q, d)]_vars

\* C15: the polling goroutine is inside a ReadValue call, at or after its
\* first write, only on a device whose port has been opened successfully at
\* some time (serport is no longer nil).
C15_PollsOnlyOpened ==
  \A d \in Devs : (Polling(d) /\ step[d] # "call") => serport[d] # "nil"

\* The step is a call of ReadValue on the current item of d returning an
\* error: the goroutine goes to time.Sleep(errpause).
BadPoll(d) == Polling(d) /\ step[d] \notin {"call", "errpause"} /\ step'[d] = "errpause"

\* The step ends time.Sleep(errpause) of the goroutine of d.
PauseEnds(d) == Polling(d) /\ step[d] = "errpause" /\ step'[d] # "errpause"

\* The goroutine of d moves on to the position after the current item.
MovesOn(d) ==
  /\ phase'[d] = PosNext(d, phase[d], idx[d]).phase
  /\ idx'[d] = PosNext(d, phase[d], idx[d]).idx
  /\ step'[d] = "call"

\* The goroutine of d stays at the current item.
Stays(d) == phase'[d] = phase[d] /\ idx'[d] = idx[d]

\* C16: when ReadValue returns nil, errcounter becomes 0, the value decoded
\* from the bytes read is in the item's value field and the loop moves on;
\* when it returns an error, no value field is written and the goroutine
\* sleeps at the same item with errcounter as it was; when the sleep ends,
\* errcounter is one more and the loop moves on.
C16_ItemOutcome ==
  [][\A d \in Devs :
       /\ GoodPoll(d, CurItem(d)) =>
            /\ errcounter'[d] = 0
            /\ value'[d][CurItem(d)] = Decoded(d).val
            /\ MovesOn(d)
       /\ BadPoll(d) =>
            /\ value' = value
            /\ errcounter'[d] = errcounter[d]
            /\ Stays(d)
       /\ PauseEnds(d) =>
            /\ value' = value
            /\ errcounter'[d] = errcounter[d] + 1
            /\ MovesOn(d)]_vars

\* The part of C16 that holds: the same, but a call of ADC.ReadValue that
\* fails in getFloat has written NaN to the value field of its item.
C16_ExceptNaN ==
  [][\A d \in Devs :
       /\ GoodPoll(d, CurItem(d)) =>
            /\ errcounter'[d] = 0
            /\ value'[d][CurItem(d)] = Decoded(d).val
            /\ MovesOn(d)
       /\ BadPoll(d) =>
            /\ IF phase[d] = "adcs" /\ step[d] = "store"
               THEN value' = [value EXCEPT ![d][CurItem(d)] = NaN]
               ELSE value' = value
            /\ errcounter'[d] = errcounter[d]
            /\ Stays(d)
       /\ PauseEnds(d) =>
            /\ value' = value
            /\ errcounter'[d] = errcounter[d] + 1
            /\ MovesOn(d)]_vars

\* C17: the step that ends the fault pause (the reopen attempt) leaves
\* errcounter at 0 and the goroutine at the first item of a new cycle, running,
\* with the port reopened or still closed; and on a port that is still closed
\* a write of the goroutine fails as an exchange does, with an error return,
\* and ends nothing.
C17_PauseEndsInLoop ==
  [][\A d \in Devs :
       /\ (phase[d] = "reopen" /\ phase'[d] # "reopen") =>
            /\ errcounter'[d] = 0
            /\ Polling(d)' /\ CurItem(d)' = <<"adcs", 1>> /\ step'[d] = "call"
            /\ serport'[d] \in {"open", "closed"}
            /\ ~crashed'
       /\ (Polling(d) /\ serport[d] = "closed"
           /\ step[d] \in {"write", "write2"} /\ step'[d] # step[d]) =>
            (step'[d] = "errpause" /\ ~crashed')]_vars

\* C17 witness: the reopen attempt has failed, errcounter is 0 and the
\* goroutine is in the exchange of the first item on the closed port.
C17_Witness ==
  /\ phase["d1"] = "adcs" /\ idx["d1"] = 1 /\ step["d1"] = "write"
  /\ serport["d1"] = "closed" /\ errcounter["d1"] = 0

\* The items of device d in the order the claim C19 gives: the analog items,
\* the temperature items, the switches, each group in configuration order.
Order(d) ==
  [i \in 1..Len(conf[d]["adcs"]) |-> <<"adcs", i>>] \o
  [i \in 1..Len(conf[d]["tmpts"]) |-> <<"tmpts", i>>] \o
  [i \in 1..Len(conf[d]["swts"]) |-> <<"swts", i>>]

\* The place of the current item of d in that order.
Place(d) == CHOOSE n \in 1..Len(Order(d)) : Order(d)[n] = CurItem(d)

\* The step takes the goroutine of d away from its current item.
Leaves(d) == Polling(d) /\ (~Polling(d)' \/ CurItem(d)' # CurItem(d))

\* C19: the goroutine enters a cycle at the first item of the order, leaves an
\* item only when a call of ReadValue on it has ended (with the store or with
\* the sleep after an error), and then goes to the next item of the order or,
\* after the last one, to the fault check; it begins one call of ReadValue per
\* visit; and the fault check, the pause and the reopen follow the last item
\* only.
C19_FixedOrder ==
  [][\A d \in Devs :
       /\ (~Polling(d) /\ Polling(d)') => CurItem(d)' = Order(d)[1] /\ step'[d] = "call"
       /\ Leaves(d) =>
            /\ step[d] \in {"store", "errpause"}
            /\ IF Place(d) < Len(Order(d))
               THEN Polling(d)' /\ CurItem(d)' = Order(d)[Place(d) + 1]
               ELSE phase'[d] = "check"
       /\ (Polling(d) /\ step[d] # "call" /\ step'[d] = "call") => Leaves(d)
       /\ (phase[d] # "check" /\ phase'[d] = "check") =>
            Polling(d) /\ Place(d) = Len(Order(d))
       /\ (phase[d] # "pause" /\ phase'[d] = "pause") => phase[d] = "check"
       /\ (phase[d] # "reopen" /\ phase'[d] = "reopen") => phase[d] = "pause"]_vars

\* C19 witness: the goroutine is at the fault check after a cycle in which
\* every item has had a successful poll.
C19_Witness ==
  /\ phase["d1"] = "check" /\ errcounter["d1"] = 0
  /\ \A it \in DOMAIN polled["d1"] : polled["d1"][it]

\* The only switch of the configuration with one switch.
S1 == <<"swts", 1>>

\* C18: on a device with an item, if from some time on no call of ReadValue
\* returns nil, the goroutine is in the fault pause again and again; and if
\* from some time on no call of ReadValue returns an error, the value field
\* of the item is assigned again and again.
C18_SelfHealing ==
  /\ <>[][~GoodPoll("d1", S1)]_vars => []<>(phase["d1"] = "pause")
  /\ <>[][~BadPoll("d1")]_vars => []<><<StoreStep("d1", S1)>>_vars

\* The part of C18 that holds: the same, unless the process has ended with
\* the panic on a port that was never opened.
C18_UnlessCrashed ==
  /\ <>[][~GoodPoll("d1", S1)]_vars => (<>crashed \/ []<>(phase["d1"] = "pause"))
  /\ <>[][~BadPoll("d1")]_vars => (<>crashed \/ []<><<StoreStep("d1", S1)>>_vars)

\* The number of items of device d.
NumItems(d) == Len(conf[d]["adcs"]) + Len(conf[d]["tmpts"]) + Len(conf[d]["swts"])

\* C21: errcounter is never negative and never more than maxerrors plus the
\* number of items of the device; it is at most maxerrors whenever the
\* goroutine enters a cycle; and no step of a POST request, failed or not,
\* changes it.
C21_CounterBound ==
  /\ [](\A d \in Devs :
          errcounter[d] >= 0 /\ errcounter[d] <= maxerrors + NumItems(d))
  /\ [][/\ \A d \in Devs : (~Polling(d) /\ Polling(d)') => errcounter'[d] <= maxerrors
        /\ (\E h \in Setters : sreq'[h] # sreq[h]) => errcounter' = errcounter]_vars

\* C21 witness: errcounter has reached maxerrors plus the number of items at
\* the end of a cycle, and a POST request has just been answered 500.
C21_Witness ==
  /\ phase["d1"] = "check" /\ errcounter["d1"] = maxerrors + NumItems("d1")
  /\ \E h \in Setters : sreq[h].pc = "idle" /\ sreq[h].resp = 500

====
